---- MODULE Spec2Model ----
\* fileater: a command-line tool that sorts the files of a directory into
\* per-category subdirectories (organizer.go, main.go).
\*
\* Strings are sequences of one-character strings, so that filepath.Ext,
\* strings.ToLower, strings.TrimSuffix and fmt.Sprintf are computed, not assumed.
\* A path is the sequence of its components below the root directory given on
\* the command line; the root itself is the empty sequence.
EXTENDS Integers, Sequences, FiniteSets, TLC

\* ---------------------------------------------------------------------------
\* Bounds of the model
\* ---------------------------------------------------------------------------

\* Largest suffix counter resolveCollision is followed to; a search that finds
\* no free name up to it is a search that never ends.
MaxCounter == 4

\* ---------------------------------------------------------------------------
\* Strings
\* ---------------------------------------------------------------------------

\* The characters used in names, in byte order ('.' < digits < upper < '_' < lower).
Alphabet ==
    << ".",
       "0", "1", "2", "3", "4", "5", "6", "7", "8", "9",
       "A", "B", "C", "D", "E", "F", "G", "H", "I", "J", "K", "L", "M",
       "N", "O", "P", "Q", "R", "S", "T", "U", "V", "W", "X", "Y", "Z",
       "_",
       "a", "b", "c", "d", "e", "f", "g", "h", "i", "j", "k", "l", "m",
       "n", "o", "p", "q", "r", "s", "t", "u", "v", "w", "x", "y", "z" >>

Code(c) ==
    CHOOSE i \in 1..Len(Alphabet) : Alphabet[i] = c

IsUpper(c) ==
    Code(c) >= Code("A") /\ Code(c) <= Code("Z")

\* A lower-casing that leaves the characters as they are.
ToLowerIdentity(s) ==
    s

\* strings.ToLower
ToLower(s) ==
    [i \in 1..Len(s) |->
        IF IsUpper(s[i]) THEN Alphabet[Code(s[i]) + (Code("a") - Code("A"))] ELSE s[i]]

\* strings.ToUpper (used to build inputs only)
ToUpper(s) ==
    [i \in 1..Len(s) |->
        IF Code(s[i]) >= Code("a") /\ Code(s[i]) <= Code("z")
        THEN Alphabet[Code(s[i]) - (Code("a") - Code("A"))] ELSE s[i]]

SetMax(S) ==
    CHOOSE x \in S : \A y \in S : y <= x

SetMin(S) ==
    CHOOSE x \in S : \A y \in S : x <= y

\* filepath.Ext on the last element of a path: the suffix from its last dot.
ExtName(name) ==
    LET dots == {i \in 1..Len(name) : name[i] = "."}
    IN  IF dots = {} THEN << >> ELSE SubSeq(name, SetMax(dots), Len(name))

HasSuffix(s, suf) ==
    /\ Len(suf) <= Len(s)
    /\ SubSeq(s, Len(s) - Len(suf) + 1, Len(s)) = suf

\* strings.TrimSuffix
TrimSuffix(s, suf) ==
    IF HasSuffix(s, suf) THEN SubSeq(s, 1, Len(s) - Len(suf)) ELSE s

RECURSIVE Itoa(_)
\* the %d verb of fmt.Sprintf, for n >= 0
Itoa(n) ==
    IF n < 10
    THEN << Alphabet[Code("0") + n] >>
    ELSE Itoa(n \div 10) \o << Alphabet[Code("0") + (n % 10)] >>

RECURSIVE StrLess(_, _)
\* byte-wise order of two strings
StrLess(a, b) ==
    IF a = << >> THEN b # << >>
    ELSE IF b = << >> THEN FALSE
    ELSE IF a[1] # b[1] THEN Code(a[1]) < Code(b[1])
    ELSE StrLess(Tail(a), Tail(b))

\* ---------------------------------------------------------------------------
\* Paths
\* ---------------------------------------------------------------------------

\* The root directory (Organizer.RootPath after filepath.Abs).
Root ==
    << >>

\* The last element of the root path as given on the command line.
RootName ==
    << "r" >>

\* filepath.Join(p, elem): an empty element adds nothing.
Join(p, elem) ==
    IF elem = << >> THEN p ELSE Append(p, elem)

\* filepath.Dir
Dir(p) ==
    IF p = << >> THEN << >> ELSE SubSeq(p, 1, Len(p) - 1)

\* filepath.Base, fs.DirEntry.Name
Base(p) ==
    IF p = << >> THEN RootName ELSE p[Len(p)]

\* filepath.Ext
Ext(p) ==
    ExtName(Base(p))

ProperPrefixes(p) ==
    {SubSeq(p, 1, n) : n \in 0..(Len(p) - 1)}

Prefixes(p) ==
    {SubSeq(p, 1, n) : n \in 0..Len(p)}

\* ---------------------------------------------------------------------------
\* Names used by the program and by the directory trees of the model
\* ---------------------------------------------------------------------------

video == << "v", "i", "d", "e", "o" >>
audio == << "a", "u", "d", "i", "o" >>
docs == << "d", "o", "c", "s" >>
documents == << "d", "o", "c", "u", "m", "e", "n", "t", "s" >>
media == << "m", "e", "d", "i", "a" >>

\* the catch-all category of categorizeFile and Run
mix ==
    << "m", "i", "x" >>

mp4 == << ".", "m", "p", "4" >>
mkv == << ".", "m", "k", "v" >>
avi == << ".", "a", "v", "i" >>
mp3 == << ".", "m", "p", "3" >>
wav == << ".", "w", "a", "v" >>
flac == << ".", "f", "l", "a", "c" >>
pdf == << ".", "p", "d", "f" >>
docx == << ".", "d", "o", "c", "x" >>
txt == << ".", "t", "x", "t" >>
md == << ".", "m", "d" >>
zip == << ".", "z", "i", "p" >>
tmp == << ".", "t", "m", "p" >>

\* Organizer.UseDefaultCategories
DefaultCategories ==
    (video :> {mp4, mkv, avi}) @@
    (audio :> {mp3, wav, flac}) @@
    (docs :> {pdf, docx, txt, md})

\* the default value of the -config flag
DefaultConfigName ==
    "config.json"

\* ---------------------------------------------------------------------------
\* The filesystem: d is the set of directories, f maps each regular file's
\* path to the identity of the file
\* ---------------------------------------------------------------------------

\* os.Stat: what is at p, or the error
Stat(d, f, p) ==
    IF p \in d THEN "dir"
    ELSE IF p \in DOMAIN f THEN "file"
    ELSE IF \E q \in ProperPrefixes(p) : q \in DOMAIN f THEN "ENOTDIR"
    ELSE "ENOENT"

\* os.IsNotExist applied to the error of os.Stat
IsNotExist(st) ==
    st = "ENOENT"

Exists(d, f, p) ==
    Stat(d, f, p) \in {"dir", "file"}

\* os.MkdirAll succeeds unless p or one of its parents is a regular file
MkdirAllOk(f, p) ==
    \A q \in Prefixes(p) : q \notin DOMAIN f

\* os.MkdirAll: p and its missing parents become directories
MkdirAll(d, p) ==
    d \cup Prefixes(p)

\* os.Rename succeeds when the source is there, the target's directory is a
\* directory and the target is not a directory
RenameOk(d, f, src, dst) ==
    /\ src \in DOMAIN f
    /\ Dir(dst) \in d
    /\ dst \notin d

\* os.Rename: the file leaves src and replaces whatever file is at dst
Rename(f, src, dst) ==
    [p \in (DOMAIN f \ {src}) \cup {dst} |-> IF p = dst THEN f[src] ELSE f[p]]

Children(d, f, p) ==
    {q \in d \cup DOMAIN f : Len(q) = Len(p) + 1 /\ Dir(q) = p}

RECURSIVE SortByName(_)
SortByName(S) ==
    IF S = {} THEN << >>
    ELSE LET m == CHOOSE x \in S : \A y \in S : x = y \/ StrLess(Base(x), Base(y))
         IN  << m >> \o SortByName(S \ {m})

Entry(d, f, p) ==
    [path |-> p, kind |-> Stat(d, f, p)]

\* os.ReadDir as filepath.WalkDir uses it: the entries of p sorted by name
ReadDir(d, f, p) ==
    LET s == SortByName(Children(d, f, p))
    IN  [i \in 1..Len(s) |-> Entry(d, f, s[i])]

\* ---------------------------------------------------------------------------
\* Organizer (organizer.go)
\* ---------------------------------------------------------------------------

\* Organizer.LoadConfig, after the JSON object raw (category -> list of
\* extensions) has been decoded: every extension is lower-cased into the map
LoadConfig(cats, raw) ==
    [c \in DOMAIN cats \cup DOMAIN raw |->
        IF c \in DOMAIN raw
        THEN {ToLower(raw[c][i]) : i \in DOMAIN raw[c]}
        ELSE cats[c]]

\* Organizer.categorizeFile: the categories the range over the map can return
\* (the first one met that lists the extension; "mix" when none does)
categorizeFile(cats, path) ==
    LET ext == ToLower(Ext(path))
        hits == {c \in DOMAIN cats : ext \in cats[c]}
    IN  IF hits = {} THEN {mix} ELSE hits

\* A resolveCollision that returns the path it is given.
resolveCollisionNone(d, f, path) ==
    [returns |-> TRUE, path |-> path]

\* Organizer.resolveCollision: returns is FALSE when the loop never finds a
\* path whose Stat error is a not-exist error
resolveCollision(d, f, path) ==
    LET base == Base(path)
        ext == ExtName(base)
        name == TrimSuffix(base, ext)
        newPath(k) == Join(Dir(path), name \o << "_" >> \o Itoa(k) \o ext)
        free == {k \in 1..MaxCounter : IsNotExist(Stat(d, f, newPath(k)))}
    IN  IF IsNotExist(Stat(d, f, path)) THEN [returns |-> TRUE, path |-> path]
        ELSE IF free = {} THEN [returns |-> FALSE, path |-> path]
        ELSE [returns |-> TRUE, path |-> newPath(SetMin(free))]

\* the destination processFile computes for a file of the given category
destPathOf(path, category) ==
    Join(Join(Root, category), Base(path))

\* processFile without its check that the file is already at its destination.
sameAsDestinationNever(path, destPath) ==
    FALSE

\* processFile's safety check: the source is already the destination
sameAsDestination(path, destPath) ==
    path = destPath

\* Organizer.processFile for a file categorized as category: what it did
\* (op), the error it returned (err) and the files afterwards
processFile(d, f, dry, path, category) ==
    LET destPath == destPathOf(path, category)
        rc == resolveCollision(d, f, destPath)
        out(op, err, final, files2) ==
            [op |-> op, err |-> err, dest |-> destPath, final |-> final, files |-> files2]
    IN  IF sameAsDestination(path, destPath) THEN out("same", FALSE, destPath, f)
        ELSE IF dry THEN out("dryrun", FALSE, destPath, f)
        ELSE IF ~rc.returns THEN out("hang", FALSE, destPath, f)
        ELSE IF RenameOk(d, f, path, rc.path)
             THEN out("moved", FALSE, rc.path, Rename(f, path, rc.path))
             ELSE out("renameErr", TRUE, rc.path, f)

\* A Run that creates the output directories in dry-run mode too.
createsDirectoriesAlways(dry) ==
    TRUE

\* Run creates the output directories only when it is not a dry run
createsDirectories(dry) ==
    ~dry

\* the directories Run's loop over Categories adds to TargetPaths, plus "mix"
targetPathsOf(cats) ==
    {Join(Root, c) : c \in cats} \cup {Join(Root, mix)}

\* the directories the loop over the categories `cats` creates with os.MkdirAll
createdBy(d, cats) ==
    d \cup UNION {Prefixes(Join(Root, c)) : c \in cats}

\* A walk that skips no directory.
isSkippedTargetNever(targets, path) ==
    FALSE

\* the walk callback's test for a target folder that is not the root
isSkippedTarget(targets, path) ==
    path \in targets /\ path # Root

\* A callback that counts a failed move as a processed file.
countsAsErrorNever(err) ==
    FALSE

\* the callback counts an error when processFile returns one
countsAsError(err) ==
    err

\* A callback that never sees the cancellation.
ctxIsDoneNever(done) ==
    FALSE

\* the callback's select on ctx.Done(), with its default case
ctxIsDone(done) ==
    done

RECURSIVE DropEmpty(_)
\* filepath.WalkDir returns from every directory whose entries are all visited
DropEmpty(stk) ==
    IF stk = << >> THEN stk
    ELSE IF Head(stk) = << >> THEN DropEmpty(Tail(stk))
    ELSE stk

\* filepath.WalkDir goes on to the next entry
Advance(stk) ==
    DropEmpty(<< Tail(Head(stk)) >> \o Tail(stk))

\* filepath.WalkDir reads the directory just visited and walks its entries first
Descend(stk, entries) ==
    DropEmpty(<< entries >> \o << Tail(Head(stk)) >> \o Tail(stk))

\* ---------------------------------------------------------------------------
\* Directory trees and configuration files the runs start from
\* ---------------------------------------------------------------------------

movie_mp4 == << "m", "o", "v", "i", "e" >> \o mp4
song_mp3 == << "s", "o", "n", "g" >> \o mp3
report_pdf == << "r", "e", "p", "o", "r", "t" >> \o pdf
archive_zip == << "a", "r", "c", "h", "i", "v", "e" >> \o zip
root_txt == << "r", "o", "o", "t" >> \o txt
nested_txt == << "n", "e", "s", "t", "e", "d" >> \o txt
my_subdir == << "m", "y", "_", "s", "u", "b", "d", "i", "r" >>
sub == << "s", "u", "b" >>
x_txt == << "x" >> \o txt
x_1_txt == << "x", "_", "1" >> \o txt
old_zip == << "o", "l", "d" >> \o zip
CLIP_mKv == << "C", "L", "I", "P", ".", "m", "K", "v" >>
keep_tmp == << "k", "e", "e", "p" >> \o tmp
notes_TXT == << "n", "o", "t", "e", "s", ".", "T", "X", "T" >>

\* an empty root (TestRun_CreatesDirectories)
FsEmpty ==
    [dirs |-> {Root}, files |-> << >>]

\* one file per default category and one unrecognized file
FsExample ==
    [dirs |-> {Root},
     files |-> (<< movie_mp4 >> :> 1) @@ (<< song_mp3 >> :> 2) @@
               (<< report_pdf >> :> 3) @@ (<< archive_zip >> :> 4)]

\* a file in the root and one in a subdirectory (TestRun_NonRecursiveByDefault)
FsNested ==
    [dirs |-> {Root, << my_subdir >>},
     files |-> (<< root_txt >> :> 1) @@ (<< my_subdir, nested_txt >> :> 2)]

\* already organized files whose names collide with the ones to move
FsCollide ==
    [dirs |-> {Root, << docs >>, << mix >>, << sub >>},
     files |-> (<< x_txt >> :> 1) @@ (<< docs, x_txt >> :> 2) @@
               (<< docs, x_1_txt >> :> 3) @@ (<< sub, x_txt >> :> 4) @@
               (<< mix, old_zip >> :> 5)]

\* a regular file named like the catch-all directory
FsMixFile ==
    [dirs |-> {Root}, files |-> (<< mix >> :> 1) @@ (<< archive_zip >> :> 2)]

\* a regular file named like a default category
FsVideoFile ==
    [dirs |-> {Root}, files |-> (<< video >> :> 1) @@ (<< movie_mp4 >> :> 2)]

\* the root path does not exist
FsMissing ==
    [dirs |-> {}, files |-> << >>]

\* the root path is a regular file
FsRootFile ==
    [dirs |-> {}, files |-> (Root :> 1)]

\* names in upper and mixed case
FsCase ==
    [dirs |-> {Root},
     files |-> (<< CLIP_mKv >> :> 1) @@ (<< keep_tmp >> :> 2) @@ (<< notes_TXT >> :> 3)]

\* output directories that hold files another category would claim
FsMisfiled ==
    [dirs |-> {Root, << docs >>, << mix >>},
     files |-> (<< root_txt >> :> 1) @@ (<< docs, song_mp3 >> :> 2) @@
               (<< mix, x_txt >> :> 3)]

InitialTrees ==
    {FsEmpty, FsExample, FsNested, FsCollide, FsMixFile, FsVideoFile,
     FsMissing, FsRootFile, FsCase, FsMisfiled}

\* {"documents": [".PDF"], "media": [".mp4", ".Mkv"]}
CfgMedia ==
    (documents :> << ToUpper(pdf) >>) @@ (media :> << mp4, << ".", "M", "k", "v" >> >>)

\* {"": [".tmp"], "docs": [".TXT"]}
CfgKeep ==
    (<< >> :> << tmp >>) @@ (docs :> << ToUpper(txt) >>)

\* the configuration file at the path of -config: absent, not the JSON that
\* LoadConfig decodes, or a JSON object
ConfigFiles ==
    {[state |-> "absent", raw |-> << >>],
     [state |-> "malformed", raw |-> << >>],
     [state |-> "valid", raw |-> CfgMedia],
     [state |-> "valid", raw |-> CfgKeep]}

\* ---------------------------------------------------------------------------
\* State
\* ---------------------------------------------------------------------------

VARIABLES
    pc,             \* where the program is: "main", "run", "walk", "ret", "done", "hung"
    exit,           \* how main ended
    DryRun,         \* Organizer.DryRun (-dryrun)
    recursive,      \* -r
    response,       \* the answer read at the confirmation prompt of -r
    configPath,     \* -config
    cfgFile,        \* the file at configPath
    dirs,           \* the directories of the filesystem
    files,          \* the regular files of the filesystem: path -> file
    fs0,            \* the filesystem when the program started
    Categories,     \* Organizer.Categories
    TargetPaths,    \* Organizer.TargetPaths
    stack,          \* filepath.WalkDir: the entries still to visit, innermost directory first
    processedCount, \* Run's processedCount
    errorCount,     \* Run's errorCount
    runErr,         \* what Run returns: "nil", "canceled", "mkdir"
    ctxDone,        \* ctx.Done() is closed
    signalled,      \* SIGINT or SIGTERM was delivered to the process
    last            \* what the last step did

vars ==
    << pc, exit, DryRun, recursive, response, configPath, cfgFile, dirs, files, fs0, signalled,
       Categories, TargetPaths, stack, processedCount, errorCount, runErr, ctxDone, last >>

NoStep ==
    [op |-> "none", path |-> << >>, cat |-> << >>, dest |-> << >>, final |-> << >>]

Step(op, path, cat, dest, final) ==
    [op |-> op, path |-> path, cat |-> cat, dest |-> dest, final |-> final]

\* the state main is in after flag.Parse, NewOrganizer and context.WithCancel
Init ==
    /\ pc = "main"
    /\ exit = "none"
    /\ DryRun \in BOOLEAN
    /\ recursive \in BOOLEAN
    /\ response \in IF recursive THEN {<< "y" >>, << "Y" >>, << "n" >>} ELSE {<< >>}
    /\ configPath \in {DefaultConfigName, "other.json"}
    /\ cfgFile \in ConfigFiles
    /\ \E t \in InitialTrees :
        /\ dirs = t.dirs
        /\ files = t.files
        /\ fs0 = t
    /\ Categories = << >>
    /\ TargetPaths = {}
    /\ stack = << >>
    /\ processedCount = 0
    /\ errorCount = 0
    /\ runErr = "nil"
    /\ ctxDone = FALSE
    /\ signalled = FALSE
    /\ last = NoStep

\* ---------------------------------------------------------------------------
\* main (main.go)
\* ---------------------------------------------------------------------------

\* without -r, or with the prompt answered "y" in either case
Proceeds ==
    ~recursive \/ ToLower(response) = << "y" >>

\* os.Stat(*configPath) returns no error
ConfigFound ==
    cfgFile.state # "absent"

\* A main for which a missing configuration file is never fatal.
missingConfigIsFatalNever(path) ==
    FALSE

\* a missing file is fatal when -config was given another value than the default
missingConfigIsFatal(path) ==
    path # DefaultConfigName

\* -r was given and the prompt was not answered "y": main returns
MainDeclined ==
    /\ pc = "main"
    /\ ~Proceeds
    /\ pc' = "done"
    /\ exit' = "declined"
    /\ UNCHANGED << DryRun, recursive, response, configPath, cfgFile, dirs, files, fs0, signalled,
                    Categories, TargetPaths, stack, processedCount, errorCount,
                    runErr, ctxDone, last >>

\* log.Fatalf: the file is there and LoadConfig fails, or it is not there and
\* was explicitly named
MainConfigFatal ==
    /\ pc = "main"
    /\ Proceeds
    /\ \/ ConfigFound /\ cfgFile.state = "malformed"
       \/ ~ConfigFound /\ missingConfigIsFatal(configPath)
    /\ pc' = "done"
    /\ exit' = "fatal_config"
    /\ UNCHANGED << DryRun, recursive, response, configPath, cfgFile, dirs, files, fs0, signalled,
                    Categories, TargetPaths, stack, processedCount, errorCount,
                    runErr, ctxDone, last >>

\* the file is there and LoadConfig succeeds
MainLoadConfig ==
    /\ pc = "main"
    /\ Proceeds
    /\ ConfigFound
    /\ cfgFile.state = "valid"
    /\ Categories' = LoadConfig(Categories, cfgFile.raw)
    /\ pc' = "run"
    /\ UNCHANGED << exit, DryRun, recursive, response, configPath, cfgFile, dirs, files,
                    fs0, signalled, TargetPaths, stack, processedCount, errorCount, runErr,
                    ctxDone, last >>

\* the default file is not there: UseDefaultCategories
MainUseDefaults ==
    /\ pc = "main"
    /\ Proceeds
    /\ ~ConfigFound
    /\ ~missingConfigIsFatal(configPath)
    /\ Categories' = DefaultCategories
    /\ pc' = "run"
    /\ UNCHANGED << exit, DryRun, recursive, response, configPath, cfgFile, dirs, files,
                    fs0, signalled, TargetPaths, stack, processedCount, errorCount, runErr,
                    ctxDone, last >>

\* ---------------------------------------------------------------------------
\* Organizer.Run
\* ---------------------------------------------------------------------------

\* Run up to the first callback of filepath.WalkDir: the loop over the
\* categories (in the map's order) that fills TargetPaths and creates the
\* directories, then "mix" added to TargetPaths and the Lstat of the root
RunPrepare ==
    /\ pc = "run"
    /\ LET cats == DOMAIN Categories
           bad == IF createsDirectories(DryRun)
                  THEN {c \in cats : ~MkdirAllOk(files, Join(Root, c))}
                  ELSE {}
       IN  IF bad = {}
           THEN /\ dirs' = IF createsDirectories(DryRun) THEN createdBy(dirs, cats) ELSE dirs
                /\ TargetPaths' = targetPathsOf(cats)
                /\ stack' = << << Entry(dirs', files, Root) >> >>
                /\ pc' = "walk"
                /\ runErr' = runErr
           ELSE \E b \in bad : \E before \in SUBSET (cats \ bad) :
                /\ dirs' = createdBy(dirs, before)
                /\ TargetPaths' = {Join(Root, c) : c \in before \cup {b}}
                /\ stack' = stack
                /\ pc' = "ret"
                /\ runErr' = "mkdir"
    /\ last' = NoStep
    /\ UNCHANGED << exit, DryRun, recursive, response, configPath, cfgFile, files, fs0, signalled,
                    Categories, processedCount, errorCount, ctxDone >>

\* one call of the function Run gives to filepath.WalkDir, for the next entry
\* of the walk, and what WalkDir does with its result
WalkFn ==
    /\ pc = "walk"
    /\ stack # << >>
    /\ LET e == Head(Head(stack))
       IN  IF ctxIsDone(ctxDone)
           THEN /\ runErr' = "canceled"
                /\ stack' = << >>
                /\ pc' = "ret"
                /\ last' = Step("cancel", e.path, << >>, << >>, << >>)
                /\ UNCHANGED << files, processedCount, errorCount >>
           ELSE IF e.kind \notin {"dir", "file"}
           THEN /\ errorCount' = errorCount + 1
                /\ stack' = Advance(stack)
                /\ pc' = IF stack' = << >> THEN "ret" ELSE "walk"
                /\ last' = Step("accessErr", e.path, << >>, << >>, << >>)
                /\ UNCHANGED << files, processedCount, runErr >>
           ELSE IF e.kind = "dir"
           THEN /\ IF isSkippedTarget(TargetPaths, e.path)
                   THEN /\ stack' = Advance(stack)
                        /\ last' = Step("skipDir", e.path, << >>, << >>, << >>)
                   ELSE /\ stack' = Descend(stack, ReadDir(dirs, files, e.path))
                        /\ last' = Step("dir", e.path, << >>, << >>, << >>)
                /\ pc' = IF stack' = << >> THEN "ret" ELSE "walk"
                /\ UNCHANGED << files, processedCount, errorCount, runErr >>
           ELSE \E category \in categorizeFile(Categories, e.path) :
                LET r == processFile(dirs, files, DryRun, e.path, category)
                IN  /\ last' = Step(r.op, e.path, category, r.dest, r.final)
                    /\ files' = r.files
                    /\ IF r.op = "hang"
                       THEN /\ pc' = "hung"
                            /\ UNCHANGED << stack, processedCount, errorCount >>
                       ELSE /\ stack' = Advance(stack)
                            /\ pc' = IF stack' = << >> THEN "ret" ELSE "walk"
                            /\ errorCount' = IF countsAsError(r.err) THEN errorCount + 1 ELSE errorCount
                            /\ processedCount' =
                                   IF countsAsError(r.err) THEN processedCount ELSE processedCount + 1
                    /\ runErr' = runErr
    /\ UNCHANGED << exit, DryRun, recursive, response, configPath, cfgFile, dirs, fs0, signalled,
                    Categories, TargetPaths, ctxDone >>

\* main after Run has returned: nil, context.Canceled, or a fatal error
MainExit ==
    /\ pc = "ret"
    /\ pc' = "done"
    /\ exit' = CASE runErr = "nil" -> "success"
                 [] runErr = "canceled" -> "cancelled"
                 [] OTHER -> "fatal_run"
    /\ UNCHANGED << DryRun, recursive, response, configPath, cfgFile, dirs, files, fs0, signalled,
                    Categories, TargetPaths, stack, processedCount, errorCount,
                    runErr, ctxDone, last >>

\* the holder of the cancel function of ctx calls it while Run is running
CtxCancel ==
    /\ pc \in {"run", "walk"}
    /\ ~ctxDone
    /\ ctxDone' = TRUE
    /\ UNCHANGED << pc, exit, DryRun, recursive, response, configPath, cfgFile, dirs,
                    files, fs0, signalled, Categories, TargetPaths, stack, processedCount,
                    errorCount, runErr, last >>

\* SIGINT or SIGTERM arrives while Run is running. main registers no handler
\* for it (no signal.Notify), so the Go runtime ends the process.
Interrupt ==
    /\ pc \in {"run", "walk"}
    /\ signalled' = TRUE
    /\ pc' = "killed"
    /\ exit' = "signal"
    /\ UNCHANGED << DryRun, recursive, response, configPath, cfgFile, dirs, files, fs0,
                    Categories, TargetPaths, stack, processedCount, errorCount,
                    runErr, ctxDone, last >>

Next ==
    \/ MainDeclined
    \/ MainConfigFatal
    \/ MainLoadConfig
    \/ MainUseDefaults
    \/ RunPrepare
    \/ WalkFn
    \/ MainExit
    \/ CtxCancel

Spec ==
    Init /\ [][Next]_vars

\* the program as main runs it: nothing but a signal interrupts Run
NextMain ==
    \/ MainDeclined
    \/ MainConfigFatal
    \/ MainLoadConfig
    \/ MainUseDefaults
    \/ RunPrepare
    \/ WalkFn
    \/ MainExit
    \/ Interrupt

SpecMain ==
    Init /\ [][NextMain]_vars

\* ---------------------------------------------------------------------------
\* categorizeFile called on its own (TestCategorizeFile)
\* ---------------------------------------------------------------------------

images == << "i", "m", "a", "g", "e", "s" >>
clips == << "c", "l", "i", "p", "s" >>
jpg == << ".", "j", "p", "g" >>
png == << ".", "p", "n", "g" >>
README == << "R", "E", "A", "D", "M", "E" >>

\* the map TestCategorizeFile sets
TestCategories ==
    (video :> {mp4, mkv, avi}) @@ (audio :> {mp3, wav}) @@
    (docs :> {pdf, txt}) @@ (images :> {jpg, png})

\* {"video": [".mp4"], "clips": [".MP4", ".avi"]}: one extension under two categories
CfgTwice ==
    (video :> << mp4 >>) @@ (clips :> << ToUpper(mp4), avi >>)

CategoryMaps ==
    {DefaultCategories, TestCategories, LoadConfig(<< >>, CfgMedia),
     LoadConfig(<< >>, CfgKeep), LoadConfig(<< >>, CfgTwice)}

\* s with every second letter in upper case
MixedCase(s) ==
    [i \in 1..Len(s) |-> IF i % 2 = 0 THEN ToUpper(<< s[i] >>)[1] ELSE s[i]]

KnownExtensions ==
    UNION {UNION {m[c] : c \in DOMAIN m} : m \in CategoryMaps}

\* names ending in every known extension in lower, upper and mixed case, after
\* a plain stem, a stem with a dot and no stem; names without a known extension
CategorizeNames ==
    {stem \o e : stem \in {<< "a" >>, << "a", ".", "b" >>, << >>},
                 e \in UNION {{x, ToUpper(x), MixedCase(x)} : x \in KnownExtensions}}
    \cup {README, archive_zip, << "m", "p", "4" >>, movie_mp4 \o << "." >>,
          movie_mp4 \o << "x" >>}

CategorizePaths ==
    {<< n >> : n \in CategorizeNames} \cup {<< << "v" >> \o mp4, README >>}

InitCategorize ==
    /\ pc = "unit"
    /\ exit = "none"
    /\ DryRun = TRUE
    /\ recursive = FALSE
    /\ response = << >>
    /\ configPath = DefaultConfigName
    /\ cfgFile = [state |-> "absent", raw |-> << >>]
    /\ dirs = FsEmpty.dirs
    /\ files = FsEmpty.files
    /\ fs0 = FsEmpty
    /\ Categories \in CategoryMaps
    /\ TargetPaths = {}
    /\ stack = << >>
    /\ processedCount = 0
    /\ errorCount = 0
    /\ runErr = "nil"
    /\ ctxDone = FALSE
    /\ signalled = FALSE
    /\ \E p \in CategorizePaths : last = Step("none", p, << >>, << >>, << >>)

\* o.categorizeFile(path) returns
CallCategorizeFile ==
    /\ pc = "unit"
    /\ \E c \in categorizeFile(Categories, last.path) :
        last' = [last EXCEPT !.op = "categorize", !.cat = c]
    /\ pc' = "done"
    /\ UNCHANGED << exit, DryRun, recursive, response, configPath, cfgFile, dirs, files,
                    fs0, signalled, Categories, TargetPaths, stack, processedCount, errorCount,
                    runErr, ctxDone >>

SpecCategorize ==
    InitCategorize /\ [][CallCategorizeFile]_vars

\* ---------------------------------------------------------------------------
\* Properties
\* ---------------------------------------------------------------------------

\* x and y are the same character up to letter case
SameCharFold(x, y) ==
    \/ x = y
    \/ \E k \in 0..25 :
        {x, y} = {Alphabet[Code("A") + k], Alphabet[Code("a") + k]}

\* name ends in the extension e, whatever the case of the letters
EndsInFold(name, e) ==
    /\ Len(e) <= Len(name)
    /\ \A i \in 1..Len(e) : SameCharFold(name[Len(name) - Len(e) + i], e[i])

\* the categories that list an extension the name ends in
OwnersOf(cats, name) ==
    {c \in DOMAIN cats : \E e \in cats[c] : EndsInFold(name, e)}

\* C1: categorizeFile returns the one category that lists the extension the
\* file name ends in, in any letter case, and "mix" for a name that ends in no
\* listed extension or has no extension.
C1_CategorizeByExtension ==
    last.op = "categorize" =>
        LET owners == OwnersOf(Categories, Base(last.path))
        IN  /\ Cardinality(owners) = 1 => last.cat \in owners
            /\ owners = {} => last.cat = mix

\* a name in mixed case was categorized as video, and a name without
\* extension as mix
C1_Witness ==
    /\ last.op = "categorize"
    /\ Base(last.path) = << "a", ".", "b" >> \o MixedCase(mkv)
    /\ last.cat = video
    /\ Categories = TestCategories

\* the sibling of p that resolveCollision names with counter k
Sibling(p, k) ==
    LET base == p[Len(p)]
        dots == {i \in 1..Len(base) : base[i] = "."}
        cut == IF dots = {} THEN Len(base) + 1 ELSE SetMax(dots)
    IN  SubSeq(p, 1, Len(p) - 1) \o
        << SubSeq(base, 1, cut - 1) \o << "_" >> \o Itoa(k) \o SubSeq(base, cut, Len(base)) >>

\* the step resolved a collision for the destination last'.dest
ResolvedIn(l) ==
    l.op \in {"moved", "renameErr", "hang"}

\* C2: resolveCollision(p) returns p when p does not exist; when p exists it
\* returns the sibling <name>_k<ext> with the smallest k >= 1 that does not
\* exist; the path it returns does not exist when it is checked.
C2_ResolveCollision ==
    [][(pc = "walk" /\ last' # last /\ ResolvedIn(last')) =>
        LET p == last'.dest
            q == last'.final
        IN  /\ last'.op # "hang"
            /\ ~Exists(dirs, files, p) => q = p
            /\ Exists(dirs, files, p) =>
                \E k \in 1..MaxCounter :
                    /\ q = Sibling(p, k)
                    /\ \A j \in 1..(k - 1) : Exists(dirs, files, Sibling(p, j))
            /\ ~Exists(dirs, files, q)]_vars

\* C3: in dry-run mode the filesystem stays as it was when the program
\* started: no directory is created, no file is moved or renamed.
C3_DryRunLeavesFilesystem ==
    DryRun => dirs = fs0.dirs /\ files = fs0.files

\* a dry run over the four example files came to its end
C3_Witness ==
    /\ DryRun
    /\ pc = "done"
    /\ exit = "success"
    /\ fs0 = FsExample
    /\ last.op = "dryrun"
    /\ processedCount = Cardinality(DOMAIN fs0.files)

\* C4: without -r, every file that is inside a subdirectory of the root stays
\* at its original path.
C4_NonRecursiveLeavesSubdirectories ==
    ~recursive =>
        \A p \in DOMAIN fs0.files :
            Len(p) >= 2 => p \in DOMAIN files /\ files[p] = fs0.files[p]

\* C5: in real mode, when the walk visits its entries, the output directory of
\* every configured category and of "mix" exists under the root.
C5_OutputDirectoriesExist ==
    (~DryRun /\ pc = "walk") =>
        \A c \in DOMAIN Categories \cup {mix} : Join(Root, c) \in dirs

\* where the four example files are after the run, by the default categories
ExampleOrganized ==
    (<< video, movie_mp4 >> :> 1) @@ (<< audio, song_mp3 >> :> 2) @@
    (<< docs, report_pdf >> :> 3) @@ (<< mix, archive_zip >> :> 4)

\* C6: a real, non-recursive run with the default categories over one file
\* per category and one unrecognized file ends with every file in its
\* category's directory, the unrecognized one in mix, none left in the root,
\* processed = number of files and errors = 0.
C6_ExampleRun ==
    (/\ pc = "done"
     /\ exit = "success"
     /\ ~DryRun
     /\ ~recursive
     /\ Categories = DefaultCategories
     /\ fs0 = FsExample) =>
        /\ files = ExampleOrganized
        /\ processedCount = Cardinality(DOMAIN fs0.files)
        /\ errorCount = 0

\* a cancelled run over the example left movie.mp4 moved and song.mp3, which
\* the walk had not reached, where it was
C7_Witness ==
    /\ exit = "cancelled"
    /\ runErr = "canceled"
    /\ fs0 = FsExample
    /\ << video, movie_mp4 >> \in DOMAIN files
    /\ << song_mp3 >> \in DOMAIN files

\* C7: once cancellation is requested, the next entry the walk visits stops
\* it: no file is moved from then on, what was moved stays moved, and Run
\* returns context.Canceled, which main tells from nil and from an error.
C7_CancellationStopsWalk ==
    /\ [][(ctxDone /\ pc = "walk") =>
            /\ files' = files
            /\ dirs' = dirs
            /\ processedCount' = processedCount
            /\ errorCount' = errorCount
            /\ pc' = "ret"
            /\ runErr' = "canceled"]_vars
    /\ []((pc = "done" /\ exit \notin {"declined", "fatal_config"}) =>
            /\ exit = "cancelled" <=> runErr = "canceled"
            /\ exit = "success" <=> runErr = "nil"
            /\ runErr = "canceled" => ctxDone)

\* C8: when the root path does not exist or is not a directory, nothing is
\* created or moved, and a program that got as far as Run ends with a fatal
\* error.
C8_BadRootIsFatal ==
    Root \notin fs0.dirs =>
        /\ dirs = fs0.dirs
        /\ files = fs0.files
        /\ (pc = "done" /\ exit \notin {"declined", "fatal_config"}) => exit = "fatal_run"

\* Run was never started
RunNotStarted ==
    /\ TargetPaths = {}
    /\ stack = << >>
    /\ processedCount = 0
    /\ errorCount = 0
    /\ dirs = fs0.dirs
    /\ files = fs0.files

\* the map holds the categories of the JSON object, each with its extensions
\* in lower case
LoadedFrom(cats, raw) ==
    /\ DOMAIN cats = DOMAIN raw
    /\ \A c \in DOMAIN raw :
        /\ \A i \in DOMAIN raw[c] :
            \E e \in cats[c] :
                /\ Len(e) = Len(raw[c][i])
                /\ \A j \in 1..Len(e) : SameCharFold(e[j], raw[c][i][j])
        /\ \A e \in cats[c] :
            /\ \A j \in 1..Len(e) : ~IsUpper(e[j])
            /\ \E i \in DOMAIN raw[c] : Len(e) = Len(raw[c][i])

\* C9: past the configuration step of main, a file that is there has been
\* loaded, or was fatal when malformed; with the default-named file absent the
\* default categories are in use and the run goes on; with another file named
\* and absent the program has ended fatally and Run was never started.
C9_ConfigResolution ==
    (pc # "main" /\ Proceeds) =>
        /\ cfgFile.state = "valid" =>
            exit # "fatal_config" /\ LoadedFrom(Categories, cfgFile.raw)
        /\ cfgFile.state = "malformed" =>
            pc = "done" /\ exit = "fatal_config" /\ RunNotStarted
        /\ (cfgFile.state = "absent" /\ configPath = DefaultConfigName) =>
            exit # "fatal_config" /\ Categories = DefaultCategories
        /\ (cfgFile.state = "absent" /\ configPath # DefaultConfigName) =>
            pc = "done" /\ exit = "fatal_config" /\ RunNotStarted

\* a run that named an absent file ended fatally over a root with files
C9_Witness ==
    /\ pc = "done"
    /\ exit = "fatal_config"
    /\ cfgFile.state = "absent"
    /\ configPath # DefaultConfigName
    /\ ~DryRun
    /\ fs0 = FsExample

\* the step processed a file
ProcessedIn(l) ==
    l.op \in {"same", "dryrun", "moved", "renameErr", "hang"}

\* C10: processFile on a file that is already at <root>/<category>/<basename>
\* changes nothing on disk, resolves no collision, renames nothing and
\* returns no error.
C10_AlreadyAtDestination ==
    [][(pc = "walk" /\ last' # last /\ ProcessedIn(last')
            /\ last'.path = Join(Join(Root, last'.cat), Base(last'.path))) =>
        /\ last'.op = "same"
        /\ files' = files
        /\ dirs' = dirs
        /\ errorCount' = errorCount
        /\ pc' # "hung"]_vars

\* a real run met keep.tmp, whose category "" has the root as its directory
C10_Witness ==
    /\ ~DryRun
    /\ last.op = "same"
    /\ last.path = << keep_tmp >>
    /\ last.dest = << keep_tmp >>
    /\ << keep_tmp >> \in DOMAIN files
    /\ processedCount >= 1

\* C11: a failed rename adds one to the error counter and nothing to the
\* processed counter; the walk goes on with the next entry, and the failure is
\* not what Run returns.
C11_FailedMoveIsCounted ==
    /\ [][(pc = "walk" /\ last' # last /\ last'.op = "renameErr") =>
            /\ errorCount' = errorCount + 1
            /\ processedCount' = processedCount
            /\ files' = files
            /\ stack' = Advance(stack)
            /\ pc' = (IF stack' = << >> THEN "ret" ELSE "walk")
            /\ runErr' = "nil"]_vars
    /\ []((pc \in {"ret", "done"} /\ errorCount > 0 /\ ~ctxDone) => runErr = "nil")

\* the move of archive.zip failed first, and the three files after it were
\* still visited and moved
C11_Witness ==
    /\ pc = "done"
    /\ exit = "success"
    /\ ~DryRun
    /\ fs0 = FsExample
    /\ errorCount = 1
    /\ processedCount = 3
    /\ << archive_zip >> \in DOMAIN files
    /\ << video, movie_mp4 >> \in DOMAIN files

\* C12: an interrupt delivered during a run is caught by a listener and
\* becomes the cancellation the walk polls: the signal does not end the
\* process, and a program that ends after it ends through main, with the
\* cancellation or the completion of the walk, not with a failure.
C12_InterruptBecomesCancellation ==
    signalled =>
        /\ pc # "killed"
        /\ pc = "done" => exit \in {"cancelled", "success"}

\* p is inside a target output folder other than the root
InsideTarget(p) ==
    \E q \in ProperPrefixes(p) \ {Root} : q \in TargetPaths

\* the entries the walk has still to visit
Pending ==
    UNION {{stack[i][j].path : j \in DOMAIN stack[i]} : i \in DOMAIN stack}

\* C13: in dry-run and real mode alike the walk never goes into a target
\* output folder other than the root: visiting one changes nothing and reads
\* no entry of it, no entry inside one is ever due to be visited, and a file
\* that was inside one stays where it was.
C13_TargetFoldersAreSkipped ==
    /\ [](\A p \in Pending : ~InsideTarget(p))
    /\ [](\A p \in DOMAIN fs0.files :
            InsideTarget(p) => p \in DOMAIN files /\ files[p] = fs0.files[p])
    /\ [][(pc = "walk" /\ stack' # stack /\ ~ctxDone) =>
            LET e == Head(Head(stack))
            IN  (e.kind = "dir" /\ e.path \in TargetPaths /\ e.path # Root) =>
                    /\ stack' = Advance(stack)
                    /\ files' = files
                    /\ processedCount' = processedCount
                    /\ errorCount' = errorCount]_vars

\* a real run ended with the misfiled docs/song.mp3 and mix/x.txt where they
\* were, having counted only the file of the root
C13_Witness ==
    /\ pc = "done"
    /\ exit = "success"
    /\ ~DryRun
    /\ fs0 = FsMisfiled
    /\ Categories = DefaultCategories
    /\ << docs, song_mp3 >> \in DOMAIN files
    /\ << mix, x_txt >> \in DOMAIN files
    /\ << docs, root_txt >> \in DOMAIN files
    /\ processedCount = 1
    /\ errorCount = 0

\* the files of f, whatever their paths
FilesOf(f) ==
    {f[p] : p \in DOMAIN f}

\* C14: a run never overwrites or loses a file: every rename goes to a path
\* where nothing is, so the files under the root stay the same files, as many
\* as before and each at a path of its own.
C14_NoFileIsLost ==
    /\ [][(pc = "walk" /\ last' # last /\ last'.op = "moved") =>
            /\ last'.final \notin DOMAIN files
            /\ last'.final \notin dirs
            /\ last'.path \in DOMAIN files
            /\ files' = Rename(files, last'.path, last'.final)]_vars
    /\ [](/\ FilesOf(files) = FilesOf(fs0.files)
          /\ Cardinality(DOMAIN files) = Cardinality(DOMAIN fs0.files)
          /\ Cardinality(FilesOf(files)) = Cardinality(DOMAIN files))

\* the two x.txt of the root and of sub/ joined the x.txt and x_1.txt that
\* docs/ already held, each under a name of its own
C14_Witness ==
    /\ pc = "done"
    /\ exit = "success"
    /\ ~DryRun
    /\ fs0 = FsCollide
    /\ DOMAIN files = {<< docs, x_txt >>, << docs, x_1_txt >>, << docs, Sibling(<< x_txt >>, 2)[1] >>,
                       << docs, Sibling(<< x_txt >>, 3)[1] >>, << mix, old_zip >>}
    /\ files[<< docs, x_txt >>] = fs0.files[<< docs, x_txt >>]
    /\ files[<< docs, Sibling(<< x_txt >>, 2)[1] >>] = fs0.files[<< sub, x_txt >>]
    /\ files[<< docs, Sibling(<< x_txt >>, 3)[1] >>] = fs0.files[<< x_txt >>]

====
